---- MODULE Spec2Model ----
(***************************************************************************)
(* A model of the road routing engine of src/src/lib.rs: the graph builder *)
(* RoadNetwork::new, the heuristic a_star_heuristic, the search            *)
(* RoadDijkstra::dijkstra and RoadNetwork::                                *)
(* reduce_to_largest_connected_component.                                  *)
(*                                                                         *)
(* Conventions.  Option<T>: None is <<>>, Some(x) is <<x>>.  A HashMap is  *)
(* a function whose DOMAIN is its key set.  A tuple (a, b) is <<a, b>>.    *)
(* Vec indices are 0-based in the source and 1-based here, so refs[i] of   *)
(* the source is refs[i + 1] of the model.                                 *)
(***************************************************************************)
EXTENDS Integers, Sequences, FiniteSets, TLC

VARIABLES
    pc,                       \* where the caller is: see the actions
    input,                    \* the arguments of RoadNetwork::new, as passed
    graph,                    \* the RoadNetwork built from them
    reduced,                  \* Option: the network reduce_to_largest_... returned
    number_times_node_visted, \* reduce: node id -> round that settled it
    counter,                  \* reduce: number of rounds run
    visited_nodes,            \* RoadDijkstra.visited_nodes
    cost_upper_bound,         \* RoadDijkstra.cost_upper_bound
    max_settled_nodes,        \* RoadDijkstra.max_settled_nodes
    priority_queue,           \* dijkstra: the heap, as the set of its entries
    gscore,                   \* dijkstra: best known g per node id
    previous_nodes,           \* dijkstra: predecessor map
    args,                     \* dijkstra: its arguments
    ret                       \* dijkstra: Option of the returned Option<RoadPathedNode>

vars == <<pc, input, graph, reduced, number_times_node_visted, counter,
          visited_nodes, cost_upper_bound, max_settled_nodes, priority_queue,
          gscore, previous_nodes, args, ret>>

None == <<>>
Some(x) == <<x>>

\* HashMap::get
Get(map, key) == IF key \in DOMAIN map THEN Some(map[key]) ELSE None

\* HashMap::insert: the new value replaces any value the key had
Insert(map, key, value) == (key :> value) @@ map

Abs(x) == IF x < 0 THEN -x ELSE x

\* u64::MAX.  The model's integers are 32 bits wide, so the largest of them
\* stands for it: every cost the bounded inputs produce is far below it, and
\* the code only ever compares against it.
U64_MAX == 2147483647

(***************************************************************************)
(* Bounds of the inputs.                                                   *)
(***************************************************************************)
\* ways in a list of two-node ways
MaxWays == 4
\* refs of all the ways of a list of free-form ways, together
MaxTotalRefs == 4
\* the cost bounds set_cost_upper_bound is called with are 0..MaxCostBound
MaxCostBound == 0

\* Node positions, in the source's fixed-point units (degrees * 10^7).  All
\* nodes lie on the parallel lat = 0, 2100 units (15 m) apart, and ids do not
\* follow positions.
Lon == (1 :> 0) @@ (2 :> 6300) @@ (3 :> 4200) @@ (4 :> 2100) @@ (5 :> 8400)

NodeMap(ids) == [id \in ids |-> [id |-> id, lat |-> 0, lon |-> Lon[id]]]

HighwayClasses == {"motorway", "residential", "footway"}

(***************************************************************************)
(* RoadNetwork                                                             *)
(***************************************************************************)
speed_calc(highway) ==
    CASE highway \in {"motorway", "trunk"} -> Some(110)
      [] highway = "primary" -> Some(70)
      [] highway = "secondary" -> Some(60)
      [] highway \in {"tertiary", "motorway_link", "trunk_link",
                      "primary_link", "secondary_link"} -> Some(50)
      [] highway \in {"road", "unclassified"} -> Some(40)
      [] highway \in {"residential", "unsurfaced"} -> Some(30)
      [] highway = "living_street" -> Some(10)
      [] highway = "service" -> Some(5)
      [] OTHER -> None

\* The speeds the reader gives to ways: unrecognised classes are dropped.
WaySpeeds == {speed_calc(h)[1] : h \in {c \in HighwayClasses : speed_calc(c) # None}}

\* `c as u64`: the planar length of a segment in metres, truncated.  With
\* a = (dlat * 111229)^2 / 10^14 and b = (dlon * 71695)^2 / 10^14 the source
\* takes sqrt(a + b).  The squares exceed the model's integers, so the root is
\* taken in closed form for the displacements the inputs have: along a
\* parallel (a = 0) it is |dlon| * 71695 / 10^7 and along a meridian (b = 0)
\* it is |dlat| * 111229 / 10^7.  For |d| < 29000 units the f64 result is
\* within 10^-12 of the exact quotient, which is no nearer than 5 * 10^-7
\* to an integer, so the truncation is the integer division.
SegmentLength(tail, head) ==
    LET dlat == Abs(head.lat - tail.lat)
        dlon == Abs(head.lon - tail.lon)
    IN  IF dlat = 0 THEN (dlon * 71695) \div 10000000
                    ELSE (dlat * 111229) \div 10000000

\* `(speed as f64 * 5.0 / 18.0) as u64`: km/h to m/s, truncated
MetersPerSecond(speed) == (speed * 5) \div 18

\* seconds needed to traverse the segment
EdgeCost(tail, head, speed) == SegmentLength(tail, head) \div MetersPerSecond(speed)

\* edges.entry(tail).and_modify(|inner| inner.insert(head, v)).or_insert({head: v})
InsertEdge(edges, tail_id, head_id, value) ==
    IF tail_id \in DOMAIN edges
    THEN [edges EXCEPT ![tail_id] = Insert(@, head_id, value)]
    ELSE Insert(edges, tail_id, (head_id :> value))

\* A builder that forgets the reverse direction.
InsertTailToHeadOnly(edges, tail_id, head_id, head, cost) ==
    InsertEdge(edges, tail_id, head_id, <<cost, FALSE>>)

\* The two insertions of a segment: tail_id -> head_id, then head.id -> tail_id,
\* both with (cost, flag) and flag = false.
InsertBothWays(edges, tail_id, head_id, head, cost) ==
    InsertEdge(InsertEdge(edges, tail_id, head_id, <<cost, FALSE>>),
               head.id, tail_id, <<cost, FALSE>>)

\* The body of `for i in 0..way.refs.len() - 1`.  acc holds edges and the two
\* locals previous_head_node_now_tail and previous_head_node_index.
SegmentStep(nodes, way, i, acc) ==
    LET tail_id == way.refs[i + 1]
        tail == IF acc.previous_head_node_now_tail # None
                   /\ acc.previous_head_node_index = i
                THEN acc.previous_head_node_now_tail
                ELSE Get(nodes, tail_id)
        head_id == way.refs[i + 2]
        head == Get(nodes, head_id)
    IN  IF tail # None /\ head # None
        THEN [edges |-> InsertBothWays(acc.edges, tail_id, head_id, head[1],
                                       EdgeCost(tail[1], head[1], way.speed)),
              previous_head_node_now_tail |-> head,
              previous_head_node_index |-> i + 1]
        ELSE acc

RECURSIVE SegmentLoop(_, _, _, _)
SegmentLoop(nodes, way, i, acc) ==
    IF i >= Len(way.refs) - 1 THEN acc
    ELSE SegmentLoop(nodes, way, i + 1, SegmentStep(nodes, way, i, acc))

\* `0..way.refs.len() - 1` with no refs: refs.len() is a usize, so 0 - 1
\* panics on overflow where overflow is checked, and elsewhere wraps to
\* usize::MAX, and then way.refs[0] panics on the first iteration.  Either
\* way the builder panics.
WayPanics(way) == Len(way.refs) = 0

\* `for way in ways.clone()`: the edges after the ways from index k on.
RECURSIVE WayLoop(_, _, _, _)
WayLoop(nodes, ways, k, edges) ==
    IF k > Len(ways) THEN [panicked |-> FALSE, edges |-> edges]
    ELSE IF WayPanics(ways[k]) THEN [panicked |-> TRUE, edges |-> edges]
    ELSE WayLoop(nodes, ways, k + 1,
                 SegmentLoop(nodes, ways[k], 0,
                             [edges |-> edges,
                              previous_head_node_now_tail |-> None,
                              previous_head_node_index |-> 0]).edges)

\* A builder that removes no node.
KeepAllNodes(nodes, edges) == nodes

\* node_to_remove and the removal: nodes that are no key of edges are dropped
PruneNodes(nodes, edges) ==
    [id \in {n \in DOMAIN nodes : n \in DOMAIN edges} |-> nodes[id]]

EmptyNetwork == [nodes |-> <<>>, edges |-> <<>>, raw_ways |-> <<>>, raw_nodes |-> {}]

\* RoadNetwork::new.  raw_nodes is a Vec filled in the node map's iteration
\* order, which is unspecified: it is modelled as the set of its entries.
New(nodes, ways) ==
    LET built == WayLoop(nodes, ways, 1, <<>>)
        kept == PruneNodes(nodes, built.edges)
    IN  IF built.panicked THEN [panicked |-> TRUE, net |-> EmptyNetwork]
        ELSE [panicked |-> FALSE,
              net |-> [nodes |-> kept, edges |-> built.edges,
                       raw_ways |-> ways, raw_nodes |-> DOMAIN kept]]

(***************************************************************************)
(* RoadPathedNode and the heap order                                       *)
(***************************************************************************)
\* #[derive(Ord)] on Node: by id, then lat, then lon.  -1, 0, 1 for <, =, >.
CmpInt(a, b) == IF a < b THEN -1 ELSE IF a > b THEN 1 ELSE 0

CmpNode(a, b) ==
    IF a.id # b.id THEN CmpInt(a.id, b.id)
    ELSE IF a.lat # b.lat THEN CmpInt(a.lat, b.lat)
    ELSE CmpInt(a.lon, b.lon)

\* #[derive(Ord)] on RoadPathedNode: node_self, distance_from_start, then
\* parent_node, where None < Some and two Some compare their records.
RECURSIVE CmpPathed(_, _)
CmpPathed(a, b) ==
    IF CmpNode(a.node_self, b.node_self) # 0 THEN CmpNode(a.node_self, b.node_self)
    ELSE IF a.distance_from_start # b.distance_from_start
         THEN CmpInt(a.distance_from_start, b.distance_from_start)
    ELSE IF a.parent_node = None \/ b.parent_node = None
         THEN CmpInt(Len(a.parent_node), Len(b.parent_node))
    ELSE CmpPathed(a.parent_node[1], b.parent_node[1])

\* The order of the heap's entries (f, RoadPathedNode): by f, then the record.
CmpEntry(a, b) == IF a[1] # b[1] THEN CmpInt(a[1], b[1]) ELSE CmpPathed(a[2], b[2])

\* BinaryHeap<Reverse<..>>::pop: the least entry.  The heap is modelled as the
\* set of its entries: dijkstra pushes a node only with a distance strictly
\* below every distance it was pushed with before, so no entry occurs twice.
PopMin(queue) == CHOOSE e \in queue : \A o \in queue : CmpEntry(e, o) <= 0

\* RoadPathedNode::get_path: the nodes from the record back to the origin,
\* and the record's distance_from_start.
RECURSIVE PathNodes(_)
PathNodes(pathed) ==
    IF pathed.parent_node = None THEN <<pathed.node_self>>
    ELSE <<pathed.node_self>> \o PathNodes(pathed.parent_node[1])

get_path(pathed) == <<PathNodes(pathed), pathed.distance_from_start>>

(***************************************************************************)
(* a_star_heuristic                                                        *)
(***************************************************************************)
\* `graph.nodes.get(&target).unwrap()` panics when the target is no node.
HeuristicPanics(net, target) == target \notin DOMAIN net.nodes

\* 110 is the motorway speed, the largest of speed_calc
a_star_heuristic(net, target) ==
    LET tail == net.nodes[target]
    IN  [id \in DOMAIN net.nodes |->
            SegmentLength(tail, net.nodes[id]) \div MetersPerSecond(110)]

(***************************************************************************)
(* RoadDijkstra                                                            *)
(***************************************************************************)
\* get_neighbors: the (Node, cost) of each edge out of `current` whose head is
\* not in visited_nodes and, under consider_arc_flags, whose flag is set.
get_neighbors(net, visited, current, consider_arc_flags) ==
    LET id == current.node_self.id
        next_node_edges == IF id \in DOMAIN net.edges THEN net.edges[id] ELSE <<>>
    IN  {<<net.nodes[head], next_node_edges[head][1]>> :
            head \in {h \in DOMAIN next_node_edges :
                        /\ h \notin DOMAIN visited
                        /\ ~(consider_arc_flags /\ ~next_node_edges[h][2])}}

\* A search that takes the edge's cost for the distance from the start.
EdgeCostAlone(current, edge_cost) == edge_cost

\* temp_distance
TempDistance(current, edge_cost) == current.distance_from_start + edge_cost

\* h of a neighbour: heuristic.get(id).unwrap_or(&0), or 0 with no heuristic
HeuristicOf(heuristics, id) ==
    IF heuristics = None THEN 0
    ELSE IF id \in DOMAIN heuristics[1] THEN heuristics[1][id] ELSE 0

\* gscore.get(id).unwrap_or(&u64::MAX)
GScoreOf(scores, id) == IF id \in DOMAIN scores THEN scores[id] ELSE U64_MAX

\* The search's locals and the finder's visited_nodes as one record; ret is
\* None while the loop runs and Some(result) once dijkstra has returned.
\* The part of dijkstra before the loop, for a source that is a node.
DijkstraBegin(net, source_id) ==
    LET source_node == [node_self |-> net.nodes[source_id],
                        distance_from_start |-> 0,
                        parent_node |-> None]
    IN  [priority_queue |-> {<<0, source_node>>},
         gscore |-> (source_id :> 0),
         previous_nodes |-> <<>>,
         visited_nodes |-> <<>>,
         ret |-> None]

\* Which of the two lookups before the loop panics.
SourcePanics(net, source_id) == source_id \notin DOMAIN net.nodes
TargetPanics(net, target_id) == target_id > 0 /\ target_id \notin DOMAIN net.nodes

\* The neighbours the loop pushes: those with temp_distance < next_distance.
Improved(st, current, neighbors) ==
    {nb \in neighbors : TempDistance(current, nb[2]) < GScoreOf(st.gscore, nb[1].id)}

\* The `for neighbor in self.get_neighbors(..)` loop over the improved
\* neighbours.  The neighbours have distinct ids, so each iteration reads and
\* writes its own key of gscore and previous_nodes, and the iterations are
\* taken together.
Relax(st, current, heuristics, better) ==
    LET costs == [id \in {nb[1].id : nb \in better} |->
                     (CHOOSE nb \in better : nb[1].id = id)[2]]
        pushed == {<<TempDistance(current, nb[2]) + HeuristicOf(heuristics, nb[1].id),
                     [node_self |-> nb[1],
                      distance_from_start |-> TempDistance(current, nb[2]),
                      parent_node |-> Some(current)]>> : nb \in better}
    IN  [st EXCEPT
           !.priority_queue = @ \cup pushed,
           !.gscore = [id \in DOMAIN @ \cup DOMAIN costs |->
                          IF id \in DOMAIN costs
                          THEN TempDistance(current, costs[id]) ELSE @[id]],
           !.previous_nodes = [id \in DOMAIN @ \cup DOMAIN costs |->
                                  IF id \in DOMAIN costs
                                  THEN current.node_self.id ELSE @[id]]]

\* The loop's body for the popped record, `popped` being the state with the
\* entry taken off the heap and idx inserted in visited_nodes.
LoopBody(net, popped, current, target_id, heuristics, consider_arc_flags, upper, settled) ==
    IF current.node_self.id = target_id
    THEN [popped EXCEPT !.ret = Some(Some(current))]
    ELSE IF \/ current.distance_from_start > upper
            \/ Cardinality(DOMAIN popped.visited_nodes) > settled
    THEN [popped EXCEPT !.ret = Some(None)]
    ELSE IF current.distance_from_start > GScoreOf(popped.gscore, current.node_self.id)
    THEN popped
    ELSE Relax(popped, current, heuristics,
               Improved(popped, current,
                        get_neighbors(net, popped.visited_nodes, current,
                                      consider_arc_flags)))

\* pop, and visited_nodes.insert(idx, cost)
Pop(st, entry) ==
    [st EXCEPT !.priority_queue = @ \ {entry},
               !.visited_nodes = Insert(@, entry[2].node_self.id,
                                        entry[2].distance_from_start)]

\* What follows the pop of `entry`.
AfterPop(net, st, entry, target_id, heuristics, consider_arc_flags, upper, settled) ==
    LoopBody(net, Pop(st, entry), entry[2], target_id, heuristics,
             consider_arc_flags, upper, settled)

\* One test of `while !priority_queue.is_empty()`: the return after the loop
\* if the heap is empty, else one run of the loop's body.
DijkstraIterate(net, st, target_id, heuristics, consider_arc_flags, upper, settled) ==
    IF st.priority_queue = {} THEN [st EXCEPT !.ret = Some(None)]
    ELSE AfterPop(net, st, PopMin(st.priority_queue), target_id, heuristics,
                  consider_arc_flags, upper, settled)

\* dijkstra from the loop on, run to its return.
RECURSIVE DijkstraLoop(_, _, _, _, _, _, _)
DijkstraLoop(net, st, target_id, heuristics, consider_arc_flags, upper, settled) ==
    IF st.ret # None THEN st
    ELSE DijkstraLoop(net,
             DijkstraIterate(net, st, target_id, heuristics, consider_arc_flags,
                             upper, settled),
             target_id, heuristics, consider_arc_flags, upper, settled)

(***************************************************************************)
(* The inputs                                                              *)
(***************************************************************************)
\* The ids of the nodes a search runs over.
SearchIds == {1, 2, 3, 4}

\* Target ids given to dijkstra: every node id, the sentinel -1, 0 and -2.
TargetIds == SearchIds \cup {-2, -1, 0}

RECURSIVE SortedPairs(_)
SortedPairs(pairs) ==
    IF pairs = {} THEN <<>>
    ELSE LET least == CHOOSE p \in pairs : \A q \in pairs :
                          p[1] < q[1] \/ (p[1] = q[1] /\ p[2] <= q[2])
         IN  <<least>> \o SortedPairs(pairs \ {least})

\* The pairs of ids a two-node way may join.
Pairs(ids) == {p \in ids \X ids : p[1] < p[2]}

\* The list of two-node ways over the pairs `chosen`, in the order of the
\* pairs, the way over pair p of speed speed[p].
TwoNodeWays(chosen, speed) ==
    [k \in 1..Cardinality(chosen) |->
        [id |-> k, speed |-> speed[SortedPairs(chosen)[k]],
         refs |-> SortedPairs(chosen)[k]]]

\* Lists of at most MaxWays ways of two refs each, over distinct pairs of ids,
\* each way of any speed of WaySpeeds.
TwoNodeWayLists(ids) ==
    UNION {{TwoNodeWays(c, speed) : speed \in [c -> WaySpeeds]} :
              c \in {x \in SUBSET Pairs(ids) : Cardinality(x) <= MaxWays}}

(***************************************************************************)
(* Searches on one finder                                                  *)
(***************************************************************************)
\* RoadDijkstra::new on a network built from a list of two-node ways.
InitSearch ==
    /\ \E ways \in TwoNodeWayLists(SearchIds) :
          graph = New(NodeMap(SearchIds), ways).net
    /\ input = None
    /\ pc = "idle"
    /\ reduced = None
    /\ number_times_node_visted = <<>>
    /\ counter = 0
    /\ visited_nodes = <<>>
    /\ cost_upper_bound = U64_MAX
    /\ max_settled_nodes = U64_MAX
    /\ priority_queue = {}
    /\ gscore = <<>>
    /\ previous_nodes = <<>>
    /\ args = None
    /\ ret = None

\* set_cost_upper_bound, called before the finder's first search
SetCostUpperBound(upper_bound) ==
    /\ pc = "idle"
    /\ cost_upper_bound' = upper_bound
    /\ UNCHANGED <<pc, input, graph, reduced, number_times_node_visted, counter,
                   visited_nodes, max_settled_nodes, priority_queue, gscore,
                   previous_nodes, args, ret>>

\* dijkstra up to its loop: visited_nodes is cleared, the source is looked
\* up (panic if absent), gscore and the heap get the source, and a target
\* id > 0 is looked up (panic if absent).
StartSearch(source_id, target_id, heuristics, consider_arc_flags) ==
    /\ pc \in {"idle", "returned"}
    /\ args' = Some([source_id |-> source_id, target_id |-> target_id,
                     heuristics |-> heuristics,
                     consider_arc_flags |-> consider_arc_flags])
    /\ ret' = None
    /\ IF SourcePanics(graph, source_id)
       THEN /\ pc' = "panic"
            /\ visited_nodes' = <<>>
            /\ priority_queue' = {}
            /\ gscore' = <<>>
            /\ previous_nodes' = <<>>
       ELSE LET st == DijkstraBegin(graph, source_id)
            IN  /\ pc' = IF TargetPanics(graph, target_id) THEN "panic" ELSE "search"
                /\ visited_nodes' = st.visited_nodes
                /\ priority_queue' = st.priority_queue
                /\ gscore' = st.gscore
                /\ previous_nodes' = st.previous_nodes
    /\ UNCHANGED <<input, graph, reduced, number_times_node_visted, counter,
                   cost_upper_bound, max_settled_nodes>>

\* The calls explored on one finder: its first search, and any search after
\* a full exploration (sentinel target, default bound, no arc-flag filtering),
\* which leaves visited_nodes fullest.
CallerSearches ==
    \/ pc = "idle"
    \/ /\ pc = "returned"
       /\ args[1].target_id = -1
       /\ ~args[1].consider_arc_flags
       /\ cost_upper_bound = U64_MAX

\* find_path with no heuristic
FindPath ==
    \E source_id \in SearchIds, target_id \in TargetIds, flags \in BOOLEAN :
        /\ CallerSearches
        /\ StartSearch(source_id, target_id, None, flags)

\* find_path with the heuristic map compute_heuristic gives for its target,
\* without arc-flag filtering
FindPathAStar ==
    \E source_id \in SearchIds, target_id \in TargetIds :
        /\ CallerSearches
        /\ ~HeuristicPanics(graph, target_id)
        /\ StartSearch(source_id, target_id,
                       Some(a_star_heuristic(graph, target_id)), FALSE)

\* The variables of a search as the record the loop works on, and back.
SearchState ==
    [priority_queue |-> priority_queue, gscore |-> gscore,
     previous_nodes |-> previous_nodes, visited_nodes |-> visited_nodes,
     ret |-> None]

Becomes(st) ==
    /\ priority_queue' = st.priority_queue
    /\ gscore' = st.gscore
    /\ previous_nodes' = st.previous_nodes
    /\ visited_nodes' = st.visited_nodes
    /\ ret' = st.ret
    /\ pc' = IF st.ret = None THEN "search" ELSE "returned"

\* One iteration of dijkstra's loop, or its return once the heap is empty.
SearchStep ==
    /\ pc = "search"
    /\ Becomes(DijkstraIterate(graph, SearchState, args[1].target_id,
                               args[1].heuristics, args[1].consider_arc_flags,
                               cost_upper_bound, max_settled_nodes))
    /\ UNCHANGED <<input, graph, reduced, number_times_node_visted, counter,
                   cost_upper_bound, max_settled_nodes, args>>

NextSearch ==
    \/ \E upper_bound \in 0..MaxCostBound : SetCostUpperBound(upper_bound)
    \/ FindPath
    \/ FindPathAStar
    \/ SearchStep

SpecSearch == InitSearch /\ [][NextSearch]_vars

(***************************************************************************)
(* Building a network and reducing it to its largest component             *)
(***************************************************************************)
\* The node map of the free-form inputs has the ids BuildIds; their ways may
\* also name 4, which is no node.
BuildIds == {1, 2, 3}
RefIds == {1, 2, 3, 4}

\* The node map of the inputs made of two-node ways.
ReduceIds == {1, 2, 3, 4, 5}

\* The ways of n refs over RefIds, of any speed of WaySpeeds, with id k.
FreeWays(k, n) ==
    {[id |-> k, speed |-> speed, refs |-> refs] :
        speed \in WaySpeeds, refs \in [1..n -> RefIds]}

Init ==
    /\ pc = "input"
    /\ input = None
    /\ graph = EmptyNetwork
    /\ reduced = None
    /\ number_times_node_visted = <<>>
    /\ counter = 0
    /\ visited_nodes = <<>>
    /\ cost_upper_bound = U64_MAX
    /\ max_settled_nodes = U64_MAX
    /\ priority_queue = {}
    /\ gscore = <<>>
    /\ previous_nodes = <<>>
    /\ args = None
    /\ ret = None

\* build_graph: RoadNetwork::new(nodes, ways)
BuildFrom(nodes, ways) ==
    /\ input' = Some([nodes |-> nodes, ways |-> ways])
    /\ graph' = New(nodes, ways).net
    /\ pc' = IF New(nodes, ways).panicked THEN "panic" ELSE "built"
    /\ UNCHANGED <<reduced, number_times_node_visted, counter, visited_nodes,
                   cost_upper_bound, max_settled_nodes, priority_queue, gscore,
                   previous_nodes, args, ret>>

\* build_graph on the inputs explored: the nodes BuildIds with a list of at
\* most two ways of any refs over RefIds, MaxTotalRefs refs at most in the
\* whole list; and the nodes ReduceIds with a list of at most MaxWays two-node
\* ways.
BuildGraph ==
    /\ pc = "input"
    /\ \/ BuildFrom(NodeMap(BuildIds), <<>>)
       \/ \E n \in 0..MaxTotalRefs : \E way \in FreeWays(1, n) :
             BuildFrom(NodeMap(BuildIds), <<way>>)
       \/ \E n1 \in 0..MaxTotalRefs : \E n2 \in 0..(MaxTotalRefs - n1) :
             \E way1 \in FreeWays(1, n1), way2 \in FreeWays(2, n2) :
                 BuildFrom(NodeMap(BuildIds), <<way1, way2>>)
       \/ \E chosen \in SUBSET Pairs(ReduceIds) :
             /\ Cardinality(chosen) <= MaxWays
             /\ \E speed \in [chosen -> WaySpeeds] :
                   BuildFrom(NodeMap(ReduceIds), TwoNodeWays(chosen, speed))

\* get_unvisted_node_id: the ids it may return, {} when it returns None.  It
\* returns the first node, in the node map's unspecified iteration order,
\* that is not among the located ones: any of them may come first.
get_unvisted_node_id(net, other_located_nodes) ==
    IF Cardinality(DOMAIN other_located_nodes) = Cardinality(DOMAIN net.nodes)
    THEN {}
    ELSE LET located == {id \in DOMAIN other_located_nodes :
                           other_located_nodes[id] > 0}
         IN  {id \in DOMAIN net.nodes : id \notin located}

\* A loop that already stops with half of the nodes tagged.
HalfTagged(net, tagged) ==
    Cardinality(DOMAIN tagged) >= Cardinality(DOMAIN net.nodes) \div 2

\* number_times_node_visted.len() > self.nodes.len() / 2
MajorityTagged(net, tagged) ==
    Cardinality(DOMAIN tagged) > Cardinality(DOMAIN net.nodes) \div 2

\* `for node in visited_nodes.keys() { number_times_node_visted.insert(node, counter) }`
TagSettled(tagged, settled, round) ==
    [id \in DOMAIN tagged \cup DOMAIN settled |->
        IF id \in DOMAIN settled THEN round ELSE tagged[id]]

\* A fresh finder's dijkstra(source_id, -1, &None, false), run to its return:
\* the finder's visited_nodes after it.
FullSearch(net, source_id) ==
    DijkstraLoop(net, DijkstraBegin(net, source_id), -1, None, FALSE,
                 U64_MAX, U64_MAX).visited_nodes

\* One round of reduce's loop: a full search from an unvisited node, whose
\* settled nodes get the round's number; the loop ends once more than half
\* of the nodes are tagged.
ReduceRound ==
    /\ pc \in {"built", "reducing"}
    /\ \E source_id \in get_unvisted_node_id(graph, number_times_node_visted) :
          /\ counter' = counter + 1
          /\ number_times_node_visted' =
                TagSettled(number_times_node_visted, FullSearch(graph, source_id),
                           counter + 1)
          /\ pc' = IF MajorityTagged(graph, number_times_node_visted')
                   THEN "reduce_break" ELSE "reducing"
    /\ UNCHANGED <<input, graph, reduced, visited_nodes, cost_upper_bound,
                   max_settled_nodes, priority_queue, gscore, previous_nodes,
                   args, ret>>

\* The node list sorted by round and chunked by round, and the loop over the
\* chunks from round k on: a chunk replaces the largest so far only if it is
\* strictly larger.
RECURSIVE LargestNodeSet(_, _, _, _)
LargestNodeSet(tagged, k, rounds, largest) ==
    IF k > rounds THEN largest
    ELSE LET node_set == {id \in DOMAIN tagged : tagged[id] = k}
         IN  LargestNodeSet(tagged, k + 1, rounds,
                 IF Cardinality(node_set) > Cardinality(largest) THEN node_set
                 ELSE largest)

\* reduce after its loop: the largest chunk's nodes, and the network built
\* from them and the original ways.
ReduceFinish ==
    /\ \/ pc = "reduce_break"
       \/ /\ pc \in {"built", "reducing"}
          /\ get_unvisted_node_id(graph, number_times_node_visted) = {}
    /\ LET largest_node_set == LargestNodeSet(number_times_node_visted, 1, counter, {})
           lcc_nodes == [id \in largest_node_set |-> graph.nodes[id]]
           built == New(lcc_nodes, graph.raw_ways)
       IN  /\ reduced' = IF built.panicked THEN None ELSE Some(built.net)
           /\ pc' = IF built.panicked THEN "panic" ELSE "reduced"
    /\ UNCHANGED <<input, graph, number_times_node_visted, counter, visited_nodes,
                   cost_upper_bound, max_settled_nodes, priority_queue, gscore,
                   previous_nodes, args, ret>>

Next ==
    \/ BuildGraph
    \/ ReduceRound
    \/ ReduceFinish

Spec == Init /\ [][Next]_vars

(***************************************************************************)
(* Reference definitions for the properties                                *)
(***************************************************************************)
MinOf(set) == CHOOSE x \in set : \A y \in set : x <= y

\* The least total cost of a walk of at most k edges from `from` to `to`, by
\* trying every edge out of `from`; U64_MAX when there is none.
RECURSIVE MinCostWithin(_, _, _, _)
MinCostWithin(net, from, to, k) ==
    IF from = to THEN 0
    ELSE IF k = 0 \/ from \notin DOMAIN net.edges THEN U64_MAX
    ELSE MinOf({U64_MAX} \cup
               {net.edges[from][h][1] + MinCostWithin(net, h, to, k - 1) :
                  h \in {x \in DOMAIN net.edges[from] :
                           MinCostWithin(net, x, to, k - 1) < U64_MAX}})

\* The least total cost over all paths: a cheapest walk repeats no node.
MinCost(net, from, to) ==
    MinCostWithin(net, from, to, Cardinality(DOMAIN net.nodes) - 1)

Reachable(net, from, to) == MinCost(net, from, to) < U64_MAX

\* The nodes `nodes` (target first, origin last, as get_path gives them) are a
\* path of the network from `from` to `to`.
IsPathOf(net, nodes, from, to) ==
    /\ nodes[1].id = to
    /\ nodes[Len(nodes)].id = from
    /\ \A i \in 1..Len(nodes) :
          nodes[i].id \in DOMAIN net.nodes /\ net.nodes[nodes[i].id] = nodes[i]
    /\ \A i \in 1..(Len(nodes) - 1) :
          /\ nodes[i + 1].id \in DOMAIN net.edges
          /\ nodes[i].id \in DOMAIN net.edges[nodes[i + 1].id]

RECURSIVE PathCost(_, _)
PathCost(net, nodes) ==
    IF Len(nodes) < 2 THEN 0
    ELSE net.edges[nodes[2].id][nodes[1].id][1] + PathCost(net, Tail(nodes))

\* The nodes connected to `id`.
RECURSIVE Closure(_, _)
Closure(net, ids) ==
    LET more == ids \cup UNION {DOMAIN net.edges[n] : n \in ids \cap DOMAIN net.edges}
    IN  IF more = ids THEN ids ELSE Closure(net, more)

Component(net, id) == Closure(net, {id})

\* The networks build_graph and reduce_to_largest_component have returned.
ProducedNetworks ==
    (IF pc \in {"built", "reducing", "reduce_break", "reduced"} THEN {graph} ELSE {})
    \cup (IF reduced # None THEN {reduced[1]} ELSE {})

\* C5: in every produced network edge(u, v) exists iff edge(v, u) exists, and
\* the two carry the same cost.
C5_Symmetry ==
    \A net \in ProducedNetworks :
        \A u \in DOMAIN net.edges : \A v \in DOMAIN net.edges[u] :
            /\ v \in DOMAIN net.edges
            /\ u \in DOMAIN net.edges[v]
            /\ net.edges[v][u][1] = net.edges[u][v][1]

\* A network built from two ways over the same pair of nodes, in opposite
\* directions and of speeds that give different costs: the later way's cost
\* stands in both directions.
C5_Witness ==
    /\ pc = "built"
    /\ Len(graph.raw_ways) = 2
    /\ \E u, v \in DOMAIN graph.nodes :
          /\ u # v
          /\ graph.raw_ways[1].refs = <<u, v>>
          /\ graph.raw_ways[2].refs = <<v, u>>
          /\ EdgeCost(graph.nodes[u], graph.nodes[v], graph.raw_ways[1].speed)
               # EdgeCost(graph.nodes[u], graph.nodes[v], graph.raw_ways[2].speed)
          /\ graph.edges[u][v][1] =
               EdgeCost(graph.nodes[u], graph.nodes[v], graph.raw_ways[2].speed)

\* C6: when one component of the built graph holds more than half of its
\* nodes, the reduced network's node set is exactly that component, whichever
\* unvisited node each round started from.
C6_MajorityComponent ==
    pc = "reduced" =>
        \A id \in DOMAIN graph.nodes :
            2 * Cardinality(Component(graph, id)) > Cardinality(DOMAIN graph.nodes)
                => DOMAIN reduced[1].nodes = Component(graph, id)

\* A graph of five nodes in components of 2 and 3, reduced in two rounds of
\* which the first started in the smaller component.
C6_Witness ==
    /\ pc = "reduced"
    /\ counter = 2
    /\ Cardinality(DOMAIN graph.nodes) = 5
    /\ \E id \in DOMAIN graph.nodes :
          /\ Cardinality(Component(graph, id)) = 3
          /\ number_times_node_visted[id] = 2
          /\ DOMAIN reduced[1].nodes = Component(graph, id)

\* C8: build_graph given a way of fewer than two refs completes, and its
\* nodes and edges are those of the input without that way.
C8_ShortWaysHarmless ==
    (/\ pc \in {"built", "panic"}
     /\ \E k \in 1..Len(input[1].ways) : Len(input[1].ways[k].refs) < 2) =>
        /\ pc = "built"
        /\ LET long(way) == Len(way.refs) >= 2
               without == New(input[1].nodes, SelectSeq(input[1].ways, long)).net
           IN  graph.nodes = without.nodes /\ graph.edges = without.edges

\* C9: in every produced network the keys of nodes, the keys of edges and the
\* ids of raw_nodes are one set; every node has an adjacency entry and every
\* head of an edge is a node.
C9_KeySetsAgree ==
    \A net \in ProducedNetworks :
        /\ DOMAIN net.nodes = DOMAIN net.edges
        /\ net.raw_nodes = DOMAIN net.nodes
        /\ \A u \in DOMAIN net.edges :
              /\ DOMAIN net.edges[u] # {}
              /\ DOMAIN net.edges[u] \subseteq DOMAIN net.nodes

\* A build that pruned a node of its input, followed by a reduction that
\* dropped further nodes.
C9_Witness ==
    /\ pc = "reduced"
    /\ DOMAIN graph.nodes # DOMAIN input[1].nodes
    /\ DOMAIN graph.nodes # {}
    /\ DOMAIN reduced[1].nodes # DOMAIN graph.nodes
    /\ DOMAIN reduced[1].nodes # {}

\* dijkstra has returned from a search with the default bounds, no arc-flag
\* filtering, and a target that is a node of the graph
DefaultBounds == cost_upper_bound = U64_MAX /\ max_settled_nodes = U64_MAX

ReturnedPlain ==
    /\ pc = "returned"
    /\ DefaultBounds
    /\ ~args[1].consider_arc_flags
    /\ args[1].target_id \in DOMAIN graph.nodes

\* C1: with cost_upper_bound = B, find_path with a non-sentinel target never
\* returns a record with distance_from_start > B, and returns None whenever the
\* minimum cost from source to target exceeds B.
C1_BoundEnforcement ==
    (pc = "returned" /\ cost_upper_bound # U64_MAX /\ args[1].target_id # -1) =>
        /\ ret[1] # None => ret[1][1].distance_from_start <= cost_upper_bound
        /\ (/\ args[1].target_id \in DOMAIN graph.nodes
            /\ MinCost(graph, args[1].source_id, args[1].target_id) > cost_upper_bound)
           => ret[1] = None

\* C2: with default bounds, no heuristic and no arc-flag filtering, find_path
\* to a reachable target returns a record whose distance_from_start is the
\* minimum cost over all paths and whose parent chain is a path of the graph
\* from source to target of that cost; to an unreachable one it returns None.
C2_Optimality ==
    (ReturnedPlain /\ args[1].heuristics = None) =>
        IF Reachable(graph, args[1].source_id, args[1].target_id)
        THEN /\ ret[1] # None
             /\ ret[1][1].distance_from_start =
                    MinCost(graph, args[1].source_id, args[1].target_id)
             /\ IsPathOf(graph, get_path(ret[1][1])[1],
                         args[1].source_id, args[1].target_id)
             /\ PathCost(graph, get_path(ret[1][1])[1]) = get_path(ret[1][1])[2]
        ELSE ret[1] = None

\* A search that returned a path of at least three nodes although an edge
\* joins source and target directly, at a higher cost.
C2_Witness ==
    /\ ReturnedPlain
    /\ args[1].heuristics = None
    /\ ret[1] # None
    /\ Len(get_path(ret[1][1])[1]) >= 3
    /\ args[1].target_id \in DOMAIN graph.edges[args[1].source_id]
    /\ graph.edges[args[1].source_id][args[1].target_id][1]
         > ret[1][1].distance_from_start

\* C3: with default bounds and no arc-flag filtering, find_path with the map of
\* a_star_heuristic(graph, target) returns, for a reachable target, a record
\* of the minimum cost.
C3_AStarOptimal ==
    (/\ ReturnedPlain
     /\ args[1].heuristics = Some(a_star_heuristic(graph, args[1].target_id))
     /\ Reachable(graph, args[1].source_id, args[1].target_id)) =>
        /\ ret[1] # None
        /\ ret[1][1].distance_from_start =
               MinCost(graph, args[1].source_id, args[1].target_id)

\* C4: every value of a_star_heuristic(graph, target) is at most the minimum
\* path cost from its node to the target, when the target is reachable from it.
C4_Admissible ==
    (args # None /\ args[1].heuristics # None) =>
        \A id \in DOMAIN graph.nodes :
            Reachable(graph, id, args[1].target_id) =>
                a_star_heuristic(graph, args[1].target_id)[id]
                    <= MinCost(graph, id, args[1].target_id)

\* C7: find_path goes past its lookups only if the source is a node and the
\* target is a node or the sentinel -1; otherwise it panics.
C7_AbsentIdsPanic ==
    (args # None /\ pc # "panic") =>
        /\ args[1].source_id \in DOMAIN graph.nodes
        /\ args[1].target_id = -1 \/ args[1].target_id \in DOMAIN graph.nodes

\* C10: after a search with the sentinel target, default bounds, no heuristic
\* and no arc-flag filtering, visited_nodes holds exactly the nodes reachable
\* from the source, each with its minimum cost from the source.
C10_SettledDistances ==
    (/\ pc = "returned"
     /\ DefaultBounds
     /\ args[1].target_id = -1
     /\ args[1].heuristics = None
     /\ ~args[1].consider_arc_flags) =>
        /\ DOMAIN visited_nodes =
               {id \in DOMAIN graph.nodes : Reachable(graph, args[1].source_id, id)}
        /\ \A id \in DOMAIN visited_nodes :
               visited_nodes[id] = MinCost(graph, args[1].source_id, id)

\* Nodes u and v of net are joined by an edge in both directions.
Joined(net, u, v) ==
    /\ u \in DOMAIN net.edges /\ v \in DOMAIN net.edges[u]
    /\ v \in DOMAIN net.edges /\ u \in DOMAIN net.edges[v]

\* C11: gap-skipping in build_graph: in a way whose refs run a, b, then one or
\* more ids missing from the node map, then c, with a, b and c known nodes,
\* the built graph has the edge a-b and an edge joining b and c, each in both
\* directions (the last placed head b serves as the tail after the gap).
C11_GapSkipping ==
    pc = "built" =>
        \A w \in 1..Len(input[1].ways) :
            LET refs == input[1].ways[w].refs
                known(i) == refs[i] \in DOMAIN input[1].nodes
            IN  \A j \in 2..Len(refs) : \A k \in (j + 2)..Len(refs) :
                    (/\ known(j - 1) /\ known(j) /\ known(k)
                     /\ \A m \in (j + 1)..(k - 1) : ~known(m)) =>
                        /\ Joined(graph, refs[j - 1], refs[j])
                        /\ Joined(graph, refs[j], refs[k])

====
